---- MODULE Spec2Model ----
(***************************************************************************)
(* FilmReader: the subtitle recognizer (ocr.py), the speech synthesizer    *)
(* and its queue worker (tts.py), the application loop (main.py) and the   *)
(* window's button handlers (gui.py).                                      *)
(*                                                                         *)
(* The specifications of this module:                                      *)
(*   SpecRecognizer  one SubtitleRecognizer driven by sequential calls     *)
(*   SpecNormalize   recognize_subtitle with the image normalisation       *)
(*   SpecOtsu        _otsu_threshold on the histogram of an image          *)
(*   SpecSpeech      one SpeechSynthesizer, its worker threads and callers *)
(*   SpecEnqueue     enqueue_speech calls while the queue worker runs      *)
(*   SpecSpeak       speak and clear_cache called directly                 *)
(*   Spec            FilmReaderApp: start / pause / stop and the polling   *)
(*                   worker threads                                        *)
(*   SpecLoop        one session of FilmReaderApp with the clock running   *)
(*   SpecPreprocess  _preprocess_image on one pixel                        *)
(*   SpecEnqueueFair SpecEnqueue with a queue worker that keeps running    *)
(*   SpecStopSpeech  stop_speaking and stop_queue_worker while a worker    *)
(*                   thread is inside speak                                *)
(*   SpecSession     one session of FilmReaderApp whose polling threads    *)
(*                   keep running                                          *)
(*   SpecPause       one session with pause calls and the speech worker    *)
(*   SpecStart       start and start_queue_worker called again             *)
(*   SpecGui         FilmReaderApp driven through the window's buttons     *)
(* Every specification fixes the variables of the other components.        *)
(***************************************************************************)
EXTENDS Integers, Sequences, FiniteSets, TLC

VARIABLES
    \* ---- SubtitleRecognizer (ocr.py) ----
    last_text,              \* SubtitleRecognizer.last_text
    last_capture_time,      \* SubtitleRecognizer.last_capture_time
    confidence_threshold,   \* SubtitleRecognizer.confidence_threshold
    now,                    \* the wall clock read by time.time()
    res,                    \* the most recent recognizer call, with the text of the last ok
                            \* result since construction / reset (history, SpecRecognizer)
    prev,                   \* the call before it (history, SpecRecognizer)
    \* ---- SpeechSynthesizer (tts.py) ----
    speech_queue,           \* SpeechSynthesizer.speech_queue, entries [id, text]
    tts_is_running,         \* SpeechSynthesizer.is_running
    tts_worker_thread,      \* SpeechSynthesizer.worker_thread (0: None)
    wpc,                    \* where each _queue_worker thread is
    wtask,                  \* the entry a worker thread holds
    cache,                  \* the files of cache_dir, as <<text, extension>>
    main_ext,               \* output format of tts_engine
    fallback_ext,           \* output format of fallback_engine ("None": no fallback)
    cpc,                    \* where the thread that controls the synthesizer is
    next_id,                \* entries accepted by enqueue_speech so far (history)
    play_log,               \* ids in the order their playback started (history)
    pending,                \* ids queued when stop_speaking was last called (history)
    dropped,                \* ids whose synthesis failed in the worker's speak (history)
    spk,                    \* the most recent direct speak / clear_cache call (history, SpecSpeak)
    spk_prev,               \* the call before it (history, SpecSpeak)
    \* ---- FilmReaderApp (main.py) ----
    is_running,             \* FilmReaderApp.is_running
    is_paused,              \* FilmReaderApp.is_paused
    worker_thread,          \* FilmReaderApp.worker_thread (0: None)
    ppc,                    \* where each _worker_loop thread is
    pinterval,              \* the local `interval` of each _worker_loop thread
    pobj,                   \* the recognizer a thread's call runs on (0: self.recognizer)
    old,                    \* replaced recognizers that still have a call running
    plast,                  \* the local `last_status_time` of each _worker_loop thread
    cyc,                    \* what the most recent observed polling cycle did (history, SpecLoop)
    preprocess,             \* the preprocess_* fields of the recognizer
    nz,                     \* the most recent recognize_subtitle call with its normalisation (history, SpecNormalize)
    noticed,                \* when each thread gave its last two notices for cycles without text (history, SpecLoop)
    apc,                    \* where the thread that calls start / pause / stop is
    \* ---- FilmReaderGUI (gui.py) ----
    gui                     \* FilmReaderGUI.is_running and FilmReaderGUI.is_paused

recVars == <<last_text, last_capture_time, confidence_threshold, now, res, prev>>

ttsVars == <<speech_queue, tts_is_running, tts_worker_thread, wpc, wtask, cache,
             main_ext, fallback_ext, cpc, next_id, play_log, pending, dropped>>

spkVars == <<spk, spk_prev>>

loopVars == <<cyc, noticed>>

normVars == <<preprocess, nz>>

appVars == <<is_running, is_paused, worker_thread, ppc, pinterval, pobj, old, plast,
             apc>>

guiVars == <<gui>>

vars == <<recVars, ttsVars, spkVars, loopVars, normVars, appVars, guiVars>>

(***************************************************************************)
(* Bounds                                                                  *)
(***************************************************************************)
MaxConf == 2        \* confidences and thresholds range over 0..MaxConf
MaxClock == 2       \* the wall clock runs from 1 to MaxClock + 1
MaxWorkers == 2     \* _queue_worker threads ever started on one synthesizer
MaxEnqueue == 2     \* texts accepted by enqueue_speech on one synthesizer
MaxPollers == 2     \* _worker_loop threads ever started by one application
Epoch == 6          \* the wall clock when the application is constructed
Horizon == 7        \* seconds the wall clock runs during a session
MaxAccepted == 1    \* texts one application run hands to enqueue_speech
MaxLevel == 3       \* grey levels run over 0..MaxLevel (the code has 0..255)
MaxCount == 3       \* pixels of one grey level in an image
Mantissa == 9       \* significant bits of a float (binary64 has 53)

(***************************************************************************)
(* Texts are sequences of characters, so that emptiness (`not text`) and   *)
(* blankness (`text.strip()`) are different tests, as in Python.           *)
(***************************************************************************)
Empty == <<>>
Texts == { <<>>, <<" ">>, <<"a">>, <<"b">> }

RECURSIVE LStrip(_)
LStrip(t) == IF t = <<>> THEN <<>>
             ELSE IF Head(t) = " " THEN LStrip(Tail(t)) ELSE t

RECURSIVE RStrip(_)
RStrip(t) == IF t = <<>> THEN <<>>
             ELSE IF t[Len(t)] = " " THEN RStrip(SubSeq(t, 1, Len(t) - 1)) ELSE t

\* str.strip()
Strip(t) == RStrip(LStrip(t))

\* Python truthiness of a str: `if text`
Truthy(t) == t # <<>>

Confidences == 0..MaxConf

(***************************************************************************)
(* SubtitleRecognizer                                                      *)
(***************************************************************************)
\* What the environment does during one recognize_subtitle call: the
\* capture provider and the OCR engine.
Inputs ==
    [capture : {"none", "raises"}, engine : {"unused"}, text : {Empty}, conf : {0}]
    \cup [capture : {"image"}, engine : {"recognize_raises", "confidence_raises"},
          text : {Empty}, conf : {0}]
    \cup [capture : {"image"}, engine : {"returns"}, text : Texts, conf : Confidences]

\* a capture that lets the exception of its backend through
CaptureUnguarded(c) == IF c = "none" THEN "None" ELSE c

\* ScreenCapture.capture: an exception of the backend becomes None
Capture(c) == IF c = "image" THEN "image" ELSE "None"

RecognitionResult(text, confidence, skipped, reason) ==
    [text |-> text, confidence |-> confidence, skipped |-> skipped, reason |-> reason]

RecognizerState(text, time) == [last_text |-> text, last_capture_time |-> time]

\* a recognizer that stores the text of every capture it timestamps
StateAfterCaptureStoringText(st, text, t) == [last_text |-> text, last_capture_time |-> t]

\* line 482: self.last_capture_time = time.time(), reached by every call
\* whose capture and engine calls returned, before any filter
StateAfterCapture(st, text, t) == [st EXCEPT !.last_capture_time = t]

\* a recognizer that forgets to remember the accepted text
StateAfterAcceptForgetting(st, text, t) == StateAfterCapture(st, text, t)

\* line 498: self.last_text = text
StateAfterAccept(st, text, t) == [StateAfterCapture(st, text, t) EXCEPT !.last_text = text]

\* a recognizer that stamps the capture time before it calls the engine
StateAfterErrorStamped(st, t) == [st EXCEPT !.last_capture_time = t]

\* lines 501-503: the except clause returns with the fields as they were;
\* line 482 comes after both engine calls
StateAfterError(st, t) == st

\* the engine methods one call invokes, in order (lines 470-478)
EngineCalls(inp) ==
    IF Capture(inp.capture) = "None" THEN <<>>
    ELSE IF inp.engine = "recognize_raises" THEN <<"recognize">>
    ELSE <<"recognize", "get_confidence">>

\* a recognizer without the empty-text filter
NoTextNever(text) == FALSE

\* line 485: `if not text`
NoText(text) == ~Truthy(text)

\* a filter that also rejects a confidence equal to the threshold
LowConfidenceInclusive(confidence, threshold) == confidence <= threshold

\* a recognizer without the confidence filter
LowConfidenceNever(confidence, threshold) == FALSE

\* line 489: `if confidence < self.confidence_threshold`
LowConfidence(confidence, threshold) == confidence < threshold

\* line 494: `if text == self.last_text`
Duplicate(text, last) == text = last

\* recognize_subtitle: the result and the recognizer state it leaves
recognize_subtitle(st, threshold, inp, t) ==
    IF Capture(inp.capture) = "None"
    THEN [result |-> RecognitionResult(Empty, 0, TRUE, "capture_failed"), state |-> st]
    ELSE IF inp.engine # "returns"
    THEN [result |-> RecognitionResult(Empty, 0, TRUE, "error"),
          state |-> StateAfterError(st, t)]
    ELSE IF NoText(inp.text)
    THEN [result |-> RecognitionResult(Empty, inp.conf, TRUE, "no_text"),
          state |-> StateAfterCapture(st, inp.text, t)]
    ELSE IF LowConfidence(inp.conf, threshold)
    THEN [result |-> RecognitionResult(Empty, inp.conf, TRUE, "low_confidence"),
          state |-> StateAfterCapture(st, inp.text, t)]
    ELSE IF Duplicate(inp.text, st.last_text)
    THEN [result |-> RecognitionResult(Empty, inp.conf, TRUE, "duplicate"),
          state |-> StateAfterCapture(st, inp.text, t)]
    ELSE [result |-> RecognitionResult(inp.text, inp.conf, FALSE, "ok"),
          state |-> StateAfterAccept(st, inp.text, t)]

\* a reset that clears the time only
ResetStateKeepingText == [last_text |-> last_text, last_capture_time |-> 0]

\* reset()
ResetState == RecognizerState(Empty, 0)

\* SubtitleRecognizer.__init__
InitialState == RecognizerState(Empty, 0)

CurrentState == RecognizerState(last_text, last_capture_time)

NoInput == [capture |-> "none", engine |-> "unused", text |-> Empty, conf |-> 0]
NoCall == [op |-> "none", input |-> NoInput,
           result |-> RecognitionResult(Empty, 0, TRUE, "none"),
           pre |-> InitialState, post |-> InitialState, at |-> 0,
           calls |-> <<>>, accepted |-> Empty]

RecInit ==
    /\ last_text = InitialState.last_text
    /\ last_capture_time = InitialState.last_capture_time
    /\ confidence_threshold \in Confidences
    /\ now = 1
    /\ res = NoCall
    /\ prev = NoCall

\* The recognizer, untouched
RecIdle ==
    /\ last_text = InitialState.last_text
    /\ last_capture_time = InitialState.last_capture_time
    /\ confidence_threshold = 0
    /\ now = 1
    /\ res = NoCall
    /\ prev = NoCall

\* One complete recognize_subtitle call on the recognizer
RecognizeCall ==
    \E inp \in Inputs :
        LET r == recognize_subtitle(CurrentState, confidence_threshold, inp, now) IN
        /\ last_text' = r.state.last_text
        /\ last_capture_time' = r.state.last_capture_time
        /\ prev' = res
        /\ res' = [op |-> "recognize", input |-> inp, result |-> r.result,
                   pre |-> CurrentState, post |-> r.state, at |-> now,
                   calls |-> EngineCalls(inp),
                   accepted |-> IF r.result.reason = "ok" THEN r.result.text
                                ELSE res.accepted]
        /\ UNCHANGED <<confidence_threshold, now>>
        /\ UNCHANGED <<ttsVars, spkVars, loopVars, normVars, guiVars, appVars>>
    /\ UNCHANGED <<ttsVars, spkVars, loopVars, normVars, guiVars, appVars>>

\* One reset() call
ResetCall ==
    /\ last_text' = ResetState.last_text
    /\ last_capture_time' = ResetState.last_capture_time
    /\ prev' = res
    /\ res' = [op |-> "reset", input |-> NoInput,
               result |-> RecognitionResult(Empty, 0, TRUE, "none"),
               pre |-> CurrentState, post |-> ResetState, at |-> now,
               calls |-> <<>>, accepted |-> Empty]
    /\ UNCHANGED <<confidence_threshold, now>>
    /\ UNCHANGED <<ttsVars, spkVars, loopVars, normVars, guiVars, appVars>>

\* Wall time passes between calls
Tick ==
    /\ now <= MaxClock
    /\ now' = now + 1
    /\ UNCHANGED <<last_text, last_capture_time, confidence_threshold, res, prev>>
    /\ UNCHANGED <<ttsVars, spkVars, loopVars, normVars, guiVars, appVars>>

RecNext == RecognizeCall \/ ResetCall \/ Tick


(***************************************************************************)
(* SpeechSynthesizer                                                       *)
(***************************************************************************)
Workers == 1..MaxWorkers
SpeechTexts == { <<" ">>, <<"a">>, <<"b">> }
Extensions == {"mp3", "wav"}
\* what one TTSEngine.synthesize call does
SynthOutcomes == {"ok", "fail", "raises"}
NoTask == [id |-> 0, text |-> Empty]

\* _get_audio_path: one file per (text, extension)
AudioPath(text, ext) == <<text, ext>>

\* The files cache_dir can hold for the texts of the model
CacheFiles == { AudioPath(t, e) : t \in {<<"a">>, <<"b">>}, e \in Extensions }

\* call history: no direct call yet
NoSpeak == [op |-> "none", text |-> Empty, p |-> "ok", f |-> "ok", play |-> FALSE,
            path |-> AudioPath(Empty, "mp3"), synth |-> <<>>, pre |-> {}, post |-> {}]

\* SpeechSynthesizer.__init__
TtsInit ==
    /\ speech_queue = <<>>
    /\ tts_is_running = FALSE
    /\ tts_worker_thread = 0
    /\ wpc = [w \in Workers |-> "unborn"]
    /\ wtask = [w \in Workers |-> NoTask]
    /\ cache = {}
    /\ main_ext \in Extensions
    /\ fallback_ext \in Extensions \cup {"None"}
    /\ cpc = "idle"
    /\ next_id = 0
    /\ play_log = <<>>
    /\ pending = {}
    /\ dropped = {}
    /\ spk = NoSpeak
    /\ spk_prev = NoSpeak

\* The synthesizer, untouched
TtsIdle ==
    /\ speech_queue = <<>>
    /\ tts_is_running = FALSE
    /\ tts_worker_thread = 0
    /\ wpc = [w \in Workers |-> "unborn"]
    /\ wtask = [w \in Workers |-> NoTask]
    /\ cache = {}
    /\ main_ext = "mp3"
    /\ fallback_ext = "None"
    /\ cpc = "idle"
    /\ next_id = 0
    /\ play_log = <<>>
    /\ pending = {}
    /\ dropped = {}
    /\ spk = NoSpeak
    /\ spk_prev = NoSpeak

\* a speak that plays whatever the engines did
speakIgnoringFailure(text, files, p, f) ==
    [play |-> Strip(text) # Empty, path |-> AudioPath(text, main_ext),
     cache |-> files, synth |-> <<"primary">>]

\* a speak that gives up when the primary engine fails
speakWithoutFallback(text, files, p, f) ==
    LET audio_path == AudioPath(text, main_ext) IN
    IF Strip(text) # Empty /\ audio_path \in files
    THEN [play |-> TRUE, path |-> audio_path, cache |-> files, synth |-> <<>>]
    ELSE IF Strip(text) # Empty /\ p = "ok"
    THEN [play |-> TRUE, path |-> audio_path, cache |-> files \cup {audio_path},
          synth |-> <<"primary">>]
    ELSE [play |-> FALSE, path |-> audio_path, cache |-> files,
          synth |-> IF Strip(text) = Empty THEN <<>> ELSE <<"primary">>]

\* speak(text, blocking=True) up to the call of audio_player.play: whether
\* play is called (speak then returns True), on which file, the cache
\* directory afterwards and the engines whose synthesize was called.
\* p and f are what the primary and the fallback synthesize would do.
speak(text, files, p, f) ==
    LET audio_path == AudioPath(text, main_ext)
        fallback_path == AudioPath(text, fallback_ext)
        failed(engines) == [play |-> FALSE, path |-> audio_path, cache |-> files,
                            synth |-> engines]
    IN
    IF Strip(text) = Empty THEN failed(<<>>)
    ELSE IF audio_path \in files
    THEN [play |-> TRUE, path |-> audio_path, cache |-> files, synth |-> <<>>]
    ELSE IF p = "ok"
    THEN [play |-> TRUE, path |-> audio_path, cache |-> files \cup {audio_path},
          synth |-> <<"primary">>]
    ELSE IF p = "raises" THEN failed(<<"primary">>)
    ELSE IF fallback_ext = "None" THEN failed(<<"primary">>)
    ELSE IF fallback_path \in files
    THEN [play |-> TRUE, path |-> fallback_path, cache |-> files, synth |-> <<"primary">>]
    ELSE IF f = "ok"
    THEN [play |-> TRUE, path |-> fallback_path, cache |-> files \cup {fallback_path},
          synth |-> <<"primary", "fallback">>]
    ELSE failed(<<"primary", "fallback">>)

\* The synthesis of a text fails as a whole: it is not cached, the primary
\* synthesize does not succeed, and there is no fallback engine or the
\* fallback synthesize is called and does not succeed either
SynthesisFails(text, files, p, f) ==
    /\ Strip(text) # Empty
    /\ AudioPath(text, main_ext) \notin files
    /\ p # "ok"
    /\ \/ fallback_ext = "None"
       \/ AudioPath(text, fallback_ext) \notin files /\ f # "ok"

\* clear_cache(): unlink every *.mp3 of cache_dir; an unlink that raises
\* ends the loop with the files in `kept` still there
clear_cache(files, kept) == { file \in files : file[2] # "mp3" \/ file \in kept }

\* SpeechSynthesizer.__init__ on the default cache directory, which keeps
\* the files that earlier synthesizers of the process have written
SpeakInit ==
    /\ cache \in SUBSET CacheFiles
    /\ main_ext \in Extensions
    /\ fallback_ext \in Extensions \cup {"None"}
    /\ speech_queue = <<>>
    /\ tts_is_running = FALSE
    /\ tts_worker_thread = 0
    /\ wpc = [w \in Workers |-> "unborn"]
    /\ wtask = [w \in Workers |-> NoTask]
    /\ cpc = "idle"
    /\ next_id = 0
    /\ play_log = <<>>
    /\ pending = {}
    /\ dropped = {}
    /\ spk = NoSpeak
    /\ spk_prev = NoSpeak

\* One complete speak(text) call made directly on the synthesizer
SpeakCall ==
    \E text \in SpeechTexts, p \in SynthOutcomes, f \in SynthOutcomes :
        LET r == speak(text, cache, p, f) IN
        /\ cache' = r.cache
        /\ spk_prev' = spk
        /\ spk' = [op |-> "speak", text |-> text, p |-> p, f |-> f, play |-> r.play,
                   path |-> r.path, synth |-> r.synth, pre |-> cache, post |-> r.cache]
        /\ UNCHANGED <<speech_queue, tts_is_running, tts_worker_thread, wpc, wtask,
                       main_ext, fallback_ext, cpc, next_id, play_log, pending, dropped>>
        /\ UNCHANGED <<recVars, loopVars, normVars, guiVars, appVars>>

\* One complete clear_cache() call
ClearCacheCall ==
    \E kept \in SUBSET { file \in cache : file[2] = "mp3" } :
        /\ cache' = clear_cache(cache, kept)
        /\ spk_prev' = spk
        /\ spk' = [op |-> "clear_cache", text |-> Empty,
                   p |-> IF kept = {} THEN "ok" ELSE "raises", f |-> "ok",
                   play |-> FALSE, path |-> AudioPath(Empty, "mp3"), synth |-> <<>>,
                   pre |-> cache, post |-> clear_cache(cache, kept)]
        /\ UNCHANGED <<speech_queue, tts_is_running, tts_worker_thread, wpc, wtask,
                       main_ext, fallback_ext, cpc, next_id, play_log, pending, dropped>>
        /\ UNCHANGED <<recVars, loopVars, normVars, guiVars, appVars>>

SpeakNext == SpeakCall \/ ClearCacheCall

\* an enqueue_speech that leaves out a text the queue already holds
enqueue_speechDeduplicating(queue, text, id) ==
    IF Strip(text) # Empty /\ \A i \in 1..Len(queue) : queue[i].text # text
    THEN Append(queue, [id |-> id, text |-> text])
    ELSE queue

\* enqueue_speech: `if text.strip(): self.speech_queue.put(text)`; the queue
\* after the call, the entry tagged with id
enqueue_speech(queue, text, id) ==
    IF Strip(text) # Empty
    THEN Append(queue, [id |-> id, text |-> text])
    ELSE queue

\* enqueue_speech(text), from any thread; an observed call leaves its record
Enqueue(observed) ==
    \E text \in SpeechTexts :
        LET queue == enqueue_speech(speech_queue, text, next_id + 1) IN
        /\ next_id < MaxEnqueue
        /\ speech_queue' = queue
        /\ next_id' = IF Len(queue) > Len(speech_queue) THEN next_id + 1 ELSE next_id
        /\ IF observed
           THEN /\ spk' = [op |-> "enqueue_speech", text |-> text,
                           id |-> next_id + 1, pre |-> speech_queue, post |-> queue]
                /\ spk_prev' = spk
           ELSE UNCHANGED spkVars
        /\ UNCHANGED <<tts_is_running, tts_worker_thread, wpc, wtask, cache, main_ext,
                       fallback_ext, cpc, play_log, pending, dropped>>
        /\ UNCHANGED <<recVars, loopVars, normVars, guiVars, appVars>>

EnqueueSpeech == Enqueue(FALSE)

ObservedEnqueue == Enqueue(TRUE)

\* a start that does not look at the flag
AlreadyRunningNever(running) == FALSE

\* `if self.is_running: return` at the head of start_queue_worker and of start
AlreadyRunning(running) == running

\* start_queue_worker()
StartQueueWorker ==
    /\ cpc = "idle"
    /\ IF AlreadyRunning(tts_is_running)
       THEN UNCHANGED <<tts_is_running, tts_worker_thread, wpc>>
       ELSE \E w \in Workers :
                /\ wpc[w] = "unborn"
                /\ \A v \in Workers : v < w => wpc[v] # "unborn"
                /\ tts_is_running' = TRUE
                /\ tts_worker_thread' = w
                /\ wpc' = [wpc EXCEPT ![w] = "loop"]
    /\ UNCHANGED <<speech_queue, wtask, cache, main_ext, fallback_ext, cpc, next_id,
                   play_log, pending, dropped>>
    /\ UNCHANGED <<recVars, spkVars, loopVars, normVars, guiVars, appVars>>

\* stop_queue_worker(): clear the flag, then join the latest worker thread
StopQueueWorker ==
    /\ cpc = "idle"
    /\ tts_is_running' = FALSE
    /\ cpc' = IF tts_worker_thread # 0 THEN "joining" ELSE "idle"
    /\ UNCHANGED <<speech_queue, tts_worker_thread, wpc, wtask, cache, main_ext,
                   fallback_ext, next_id, play_log, pending, dropped>>
    /\ UNCHANGED <<recVars, spkVars, loopVars, normVars, guiVars, appVars>>

\* worker_thread.join(timeout=2) returns: the thread is over, or 2 s have
\* passed with the thread inside a blocking call of speak (synthesis, playback)
JoinQueueWorker ==
    /\ cpc = "joining"
    /\ wpc[tts_worker_thread] \in {"exited", "speak", "play"}
    /\ cpc' = "idle"
    /\ UNCHANGED <<speech_queue, tts_is_running, tts_worker_thread, wpc, wtask, cache,
                   main_ext, fallback_ext, next_id, play_log, pending, dropped>>
    /\ UNCHANGED <<recVars, spkVars, loopVars, normVars, guiVars, appVars>>

\* stop_speaking(): audio_player.stop(), then clear_queue() begins
StopSpeaking ==
    /\ cpc = "idle"
    /\ cpc' = "clearing"
    /\ pending' = { speech_queue[i].id : i \in 1..Len(speech_queue) }
    /\ UNCHANGED <<speech_queue, tts_is_running, tts_worker_thread, wpc, wtask, cache,
                   main_ext, fallback_ext, next_id, play_log, dropped>>
    /\ UNCHANGED <<recVars, spkVars, loopVars, normVars, guiVars, appVars>>

\* clear_queue(): one turn of `while not empty(): get_nowait()`
ClearQueue ==
    /\ cpc = "clearing"
    /\ IF speech_queue = <<>>
       THEN cpc' = "idle" /\ UNCHANGED speech_queue
       ELSE speech_queue' = Tail(speech_queue) /\ UNCHANGED cpc
    /\ UNCHANGED <<tts_is_running, tts_worker_thread, wpc, wtask, cache, main_ext,
                   fallback_ext, next_id, play_log, pending, dropped>>
    /\ UNCHANGED <<recVars, spkVars, loopVars, normVars, guiVars, appVars>>

\* _queue_worker: `while self.is_running`
WorkerLoop(w) ==
    /\ wpc[w] = "loop"
    /\ wpc' = [wpc EXCEPT ![w] = IF tts_is_running THEN "get" ELSE "exited"]
    /\ UNCHANGED <<speech_queue, tts_is_running, tts_worker_thread, wtask, cache,
                   main_ext, fallback_ext, cpc, next_id, play_log, pending, dropped>>
    /\ UNCHANGED <<recVars, spkVars, loopVars, normVars, guiVars, appVars>>

\* a get that hands out the first entry and leaves it in the queue
GetPeeking(queue) == [task |-> Head(queue), rest |-> queue]

\* speech_queue.get on a queue that is not empty: the first entry is handed
\* out and removed
Get(queue) == [task |-> Head(queue), rest |-> Tail(queue)]

\* _queue_worker: speech_queue.get(timeout=0.5), then speak is entered with
\* the text; queue.Empty goes back to the loop test
WorkerGet(w) ==
    /\ wpc[w] = "get"
    /\ IF speech_queue = <<>>
       THEN /\ wpc' = [wpc EXCEPT ![w] = "loop"]
            /\ UNCHANGED <<speech_queue, wtask>>
       ELSE /\ wpc' = [wpc EXCEPT ![w] = "speak"]
            /\ wtask' = [wtask EXCEPT ![w] = Get(speech_queue).task]
            /\ speech_queue' = Get(speech_queue).rest
    /\ UNCHANGED <<tts_is_running, tts_worker_thread, cache, main_ext, fallback_ext,
                   cpc, next_id, play_log, pending, dropped>>
    /\ UNCHANGED <<recVars, spkVars, loopVars, normVars, guiVars, appVars>>

\* speak: cache lookup and synthesis; then playback starts, or speak returns
\* False and the worker goes on to task_done and the loop test
WorkerSpeak(w) ==
    /\ wpc[w] = "speak"
    /\ \E p \in SynthOutcomes, f \in SynthOutcomes :
        LET r == speak(wtask[w].text, cache, p, f) IN
        /\ cache' = r.cache
        /\ dropped' = IF SynthesisFails(wtask[w].text, cache, p, f)
                      THEN dropped \cup {wtask[w].id} ELSE dropped
        /\ IF r.play
           THEN /\ wpc' = [wpc EXCEPT ![w] = "play"]
                /\ play_log' = Append(play_log, wtask[w].id)
                /\ UNCHANGED wtask
           ELSE /\ wpc' = [wpc EXCEPT ![w] = "loop"]
                /\ wtask' = [wtask EXCEPT ![w] = NoTask]
                /\ UNCHANGED play_log
    /\ UNCHANGED <<speech_queue, tts_is_running, tts_worker_thread, main_ext,
                   fallback_ext, cpc, next_id, pending>>
    /\ UNCHANGED <<recVars, spkVars, loopVars, normVars, guiVars, appVars>>

\* audio_player.play returns (the audio ended or was stopped); task_done
WorkerPlayEnd(w) ==
    /\ wpc[w] = "play"
    /\ wpc' = [wpc EXCEPT ![w] = "loop"]
    /\ wtask' = [wtask EXCEPT ![w] = NoTask]
    /\ UNCHANGED <<speech_queue, tts_is_running, tts_worker_thread, cache, main_ext,
                   fallback_ext, cpc, next_id, play_log, pending, dropped>>
    /\ UNCHANGED <<recVars, spkVars, loopVars, normVars, guiVars, appVars>>

\* FilmReaderApp.stop(), after the join of the polling thread:
\* synthesizer.stop_speaking() begins with audio_player.stop()
StopSpeech ==
    /\ cpc = "idle"
    /\ tts_is_running
    /\ cpc' = "stop_clearing"
    /\ pending' = { speech_queue[i].id : i \in 1..Len(speech_queue) }
    /\ UNCHANGED <<speech_queue, tts_is_running, tts_worker_thread, wpc, wtask, cache,
                   main_ext, fallback_ext, next_id, play_log, dropped>>
    /\ UNCHANGED <<recVars, spkVars, loopVars, normVars, guiVars, appVars>>

\* stop(): one turn of clear_queue(); on the empty queue stop_speaking
\* returns and stop_queue_worker() clears the flag
StopSpeechClear ==
    /\ cpc = "stop_clearing"
    /\ IF speech_queue = <<>>
       THEN /\ tts_is_running' = FALSE
            /\ cpc' = IF tts_worker_thread # 0 THEN "stop_joining" ELSE "stopped"
            /\ UNCHANGED speech_queue
       ELSE /\ speech_queue' = Tail(speech_queue)
            /\ UNCHANGED <<tts_is_running, cpc>>
    /\ UNCHANGED <<tts_worker_thread, wpc, wtask, cache, main_ext, fallback_ext,
                   next_id, play_log, pending, dropped>>
    /\ UNCHANGED <<recVars, spkVars, loopVars, normVars, guiVars, appVars>>

\* stop(): worker_thread.join(timeout=2) of stop_queue_worker() returns, the
\* thread over or still inside speak; the recognizer is reset and stop() returns
StopSpeechJoined ==
    /\ cpc = "stop_joining"
    /\ wpc[tts_worker_thread] \in {"exited", "speak", "play"}
    /\ cpc' = "stopped"
    /\ UNCHANGED <<speech_queue, tts_is_running, tts_worker_thread, wpc, wtask, cache,
                   main_ext, fallback_ext, next_id, play_log, pending, dropped>>
    /\ UNCHANGED <<recVars, spkVars, loopVars, normVars, guiVars, appVars>>

QueueWorker == \E w \in Workers :
    WorkerLoop(w) \/ WorkerGet(w) \/ WorkerSpeak(w) \/ WorkerPlayEnd(w)

TtsNext ==
    \/ EnqueueSpeech
    \/ StartQueueWorker
    \/ StopQueueWorker
    \/ JoinQueueWorker
    \/ StopSpeaking
    \/ ClearQueue
    \/ QueueWorker

(***************************************************************************)
(* FilmReaderApp                                                           *)
(*                                                                         *)
(* The application sees its synthesizer through enqueue_speech,            *)
(* stop_speaking and stop_queue_worker: here the synthesizer is its queue  *)
(* and its is_running flag; the threads that consume the queue are the     *)
(* subject of SpecSpeech.                                                  *)
(***************************************************************************)
Pollers == 1..MaxPollers

\* worker_thread.join(timeout=5) in stop()
JoinTimeout == 5
\* OCRConfig.confidence_threshold, the persisted default (0.6), on the
\* scale 0..MaxConf
DefaultThreshold == 1
\* CaptureConfig.interval, the persisted default
DefaultInterval == 1
\* seconds between two notices of a cycle without subtitle
StatusWindow == 5

\* A float is <<x>>, Python's None is <<>>
None == <<>>
Float(x) == <<x>>
\* The start configuration: the "interval" key may be missing (get falls
\* back to the default), hold None (run_cli without --interval) or a float
StartConfigs ==
    [has_interval : {TRUE}, interval : {None, Float(10)}]
    \cup [has_interval : {FALSE}, interval : {None}]

\* config.get("interval", default): the default only when the key is missing
ConfigGetInterval(config, default) ==
    IF config.has_interval THEN config.interval ELSE Float(default)

\* time.sleep(interval) raises TypeError for None, ValueError below zero
SleepRaises(interval) == interval = None \/ interval[1] < 0

\* whether a thread stays in a call longer than a join waits
Outlasts(pc, interval, timeout) ==
    \/ pc = "recognizing"
    \/ pc \in {"sleep", "except_sleep"} /\ ~SleepRaises(interval) /\ interval[1] > timeout

\* What the capture provider and the OCR engine do during one polling cycle:
\* one input for each way recognize_subtitle can go
CycleInputs ==
    { i \in Inputs : /\ i.capture # "raises"
                     /\ i.engine # "confidence_raises"
                     /\ i.conf \in {0, DefaultThreshold} }

\* call history: no normalisation to report
NoNormalize == [op |-> "none"]

\* OCRConfig: the configuration a recognizer gets when the caller gives none
DefaultPreprocess ==
    [enable |-> TRUE, scale |-> 2, grayscale |-> TRUE, auto_threshold |-> TRUE,
     threshold |-> 160, invert |-> FALSE]

\* A recognizer built with the default configuration and not called yet
NormIdle ==
    /\ preprocess = DefaultPreprocess
    /\ nz = NoNormalize

\* call history: no cycle to report
NoCycle == [reason |-> "none", text |-> Empty, enq |-> <<>>, notice |-> "none"]

\* self.gui in one cycle: None (command line), or a GUI whose update_status
\* returns or raises
Observers == {"absent", "ok", "raises"}

\* a throttle that lets a notice through when exactly 5 s have passed
WindowOpenInclusive(t, last) == t - last >= StatusWindow

\* `(now - last_status_time) > 5`
WindowOpen(t, last) == t - last > StatusWindow

\* _worker_loop, from the return of recognize_subtitle to the sleep: the
\* texts passed to enqueue_speech, the notice given to the observer ("text"
\* for a subtitle, "reason" for a cycle without one), last_status_time
\* afterwards, and whether update_status raised
HandleResult(result, observer, t, last) ==
    IF Truthy(result.text)
    THEN IF observer = "raises"
         THEN [enq |-> <<>>, notice |-> "none", last_status_time |-> last, raised |-> TRUE]
         ELSE [enq |-> <<result.text>>,
               notice |-> IF observer = "ok" THEN "text" ELSE "none",
               last_status_time |-> t, raised |-> FALSE]
    ELSE IF observer # "absent" /\ WindowOpen(t, last)
    THEN IF observer = "raises"
         THEN [enq |-> <<>>, notice |-> "none", last_status_time |-> last, raised |-> TRUE]
         ELSE [enq |-> <<>>, notice |-> "reason", last_status_time |-> t, raised |-> FALSE]
    ELSE [enq |-> <<>>, notice |-> "none", last_status_time |-> last, raised |-> FALSE]

\* The threads inside a recognize_subtitle call on recognizer k (0: the one
\* self.recognizer names)
CallsOn(k) == { p \in Pollers : ppc[p] = "recognizing" /\ pobj[p] = k }

\* A place to keep a replaced recognizer while calls still run on it
FreeSlot == CHOOSE k \in Pollers :
    /\ CallsOn(k) = {}
    /\ \A j \in Pollers : j < k => CallsOn(j) # {}

\* FilmReaderApp.__init__
AppInit ==
    /\ is_running = FALSE
    /\ is_paused = FALSE
    /\ worker_thread = 0
    /\ ppc = [p \in Pollers |-> "unborn"]
    /\ pinterval = [p \in Pollers |-> None]
    /\ pobj = [p \in Pollers |-> 0]
    /\ old = [k \in Pollers |-> InitialState]
    /\ plast = [p \in Pollers |-> 0]
    /\ cyc = NoCycle
    /\ noticed = [p \in Pollers |-> <<0, 0>>]
    /\ apc = "idle"
    /\ gui = [is_running |-> FALSE, is_paused |-> FALSE]
    /\ last_text = InitialState.last_text
    /\ last_capture_time = InitialState.last_capture_time
    /\ confidence_threshold = DefaultThreshold
    /\ now = Epoch
    /\ res = NoCall
    /\ prev = NoCall
    /\ NormIdle
    /\ TtsIdle

\* The application, untouched
AppIdle ==
    /\ is_running = FALSE
    /\ is_paused = FALSE
    /\ worker_thread = 0
    /\ ppc = [p \in Pollers |-> "unborn"]
    /\ pinterval = [p \in Pollers |-> None]
    /\ pobj = [p \in Pollers |-> 0]
    /\ old = [k \in Pollers |-> InitialState]
    /\ plast = [p \in Pollers |-> 0]
    /\ cyc = NoCycle
    /\ noticed = [p \in Pollers |-> <<0, 0>>]
    /\ apc = "idle"
    /\ gui = [is_running |-> FALSE, is_paused |-> FALSE]

\* a start that sets is_running first and does not clear it on failure
RunningAfterStartOptimistic(init) == TRUE

\* is_running when start returns: set after _init_components and the thread
\* start, cleared by the except clause
RunningAfterStart(init) == init = "ok"

\* start(config); _init_components may raise while it builds the OCR engine
\* and the recognizer, or later while it builds the TTS engine and the
\* synthesizer.  With speech set, the thread that start_queue_worker() spawns
\* is followed too.
AppStart(speech) ==
    /\ apc = "idle"
    /\ IF AlreadyRunning(is_running)
       THEN UNCHANGED <<recVars, ttsVars, spkVars, loopVars, normVars, appVars>>
       ELSE \E config \in StartConfigs, init \in {"ok", "ocr_fails", "tts_fails"} :
          \* self.recognizer = SubtitleRecognizer(...): calls already running
          \* stay on the recognizer they were made on
          /\ IF init = "ok" \/ init = "tts_fails"
             THEN /\ last_text' = InitialState.last_text
                  /\ last_capture_time' = InitialState.last_capture_time
                  /\ IF CallsOn(0) = {}
                     THEN UNCHANGED <<pobj, old>>
                     ELSE /\ old' = [old EXCEPT ![FreeSlot] = CurrentState]
                          /\ pobj' = [p \in Pollers |->
                                        IF p \in CallsOn(0) THEN FreeSlot ELSE pobj[p]]
             ELSE UNCHANGED <<last_text, last_capture_time, pobj, old>>
          \* self.synthesizer = SpeechSynthesizer(...); start_queue_worker()
          /\ IF init = "ok"
             THEN /\ speech_queue' = <<>>
                  /\ next_id' = 0
                  /\ tts_is_running' = TRUE
             ELSE UNCHANGED <<speech_queue, next_id, tts_is_running>>
          /\ IF init = "ok"
             THEN \E p \in Pollers :
                    /\ ppc[p] = "unborn"
                    /\ \A q \in Pollers : q < p => ppc[q] # "unborn"
                    /\ is_running' = RunningAfterStart(init)
                    /\ is_paused' = FALSE
                    /\ worker_thread' = p
                    /\ ppc' = [ppc EXCEPT ![p] = "loop"]
                    /\ pinterval' = [pinterval EXCEPT
                                       ![p] = ConfigGetInterval(config, DefaultInterval)]
                    /\ plast' = [plast EXCEPT ![p] = 0]
             ELSE /\ is_running' = RunningAfterStart(init)
                  /\ UNCHANGED <<is_paused, worker_thread, ppc, pinterval, plast>>
          \* the exception of _init_components is raised again to the caller
          /\ apc' = IF init = "ok" THEN "idle" ELSE "raised"
          /\ IF speech /\ init = "ok"
             THEN \E w \in Workers :
                    /\ wpc[w] = "unborn"
                    /\ \A v \in Workers : v < w => wpc[v] # "unborn"
                    /\ tts_worker_thread' = w
                    /\ wpc' = [wpc EXCEPT ![w] = "loop"]
             ELSE UNCHANGED <<tts_worker_thread, wpc>>
          /\ UNCHANGED <<confidence_threshold, now, res, prev, spkVars, loopVars, normVars>>
          /\ UNCHANGED <<wtask, cache, main_ext, fallback_ext,
                         cpc, play_log, pending, dropped>>

\* start(config), called directly
StartApp(speech) == AppStart(speech) /\ UNCHANGED guiVars

Start == StartApp(FALSE)

\* The caller of start handles the exception it got
CatchStartError ==
    /\ apc = "raised"
    /\ apc' = "idle"
    /\ UNCHANGED <<is_running, is_paused, worker_thread, ppc, pinterval, pobj, old, plast>>
    /\ UNCHANGED <<recVars, ttsVars, spkVars, loopVars, normVars, guiVars>>

\* a pause that resets the recognizer, as stop() does
StateAfterPauseReset(st) == ResetState

\* pause(paused) sets is_paused and nothing else: the recognizer after it
StateAfterPause(st) == st

\* pause(paused)
AppPause(paused) ==
    /\ apc = "idle"
    /\ is_paused' = paused
    /\ last_text' = StateAfterPause(CurrentState).last_text
    /\ last_capture_time' = StateAfterPause(CurrentState).last_capture_time
    /\ UNCHANGED <<is_running, worker_thread, ppc, pinterval, pobj, old, plast, apc>>
    /\ UNCHANGED <<confidence_threshold, now, res, prev>>
    /\ UNCHANGED <<ttsVars, spkVars, loopVars, normVars>>

\* pause(paused), called directly
Pause == (\E paused \in BOOLEAN : AppPause(paused)) /\ UNCHANGED guiVars

\* stop(), up to the join of the polling thread
AppStop ==
    /\ apc = "idle"
    /\ IF ~is_running
       THEN UNCHANGED <<is_running, apc>>
       ELSE /\ is_running' = FALSE
            /\ apc' = "joining"
    /\ UNCHANGED <<is_paused, worker_thread, ppc, pinterval, pobj, old, plast>>
    /\ UNCHANGED <<recVars, ttsVars, spkVars, loopVars, normVars>>

\* stop(), called directly
Stop == AppStop /\ UNCHANGED guiVars

\* stop(), from the return of worker_thread.join(timeout=5): the thread is
\* over, or 5 s have passed with the thread inside a call that lasts longer.
\* Then stop_speaking(), stop_queue_worker() and recognizer.reset().
StopJoined ==
    /\ apc = "joining"
    /\ \/ ppc[worker_thread] \in {"exited", "crashed"}
       \/ Outlasts(ppc[worker_thread], pinterval[worker_thread], JoinTimeout)
    /\ apc' = "idle"
    /\ speech_queue' = <<>>
    /\ tts_is_running' = FALSE
    /\ last_text' = ResetState.last_text
    /\ last_capture_time' = ResetState.last_capture_time
    /\ UNCHANGED <<is_running, is_paused, worker_thread, ppc, pinterval, pobj, old, plast>>
    /\ UNCHANGED <<confidence_threshold, now, res, prev, spkVars, loopVars, normVars, guiVars>>
    /\ UNCHANGED <<tts_worker_thread, wpc, wtask, cache, main_ext, fallback_ext,
                   cpc, next_id, play_log, pending, dropped>>

\* a loop that tests is_paused before is_running
IterationPausedFirst(running, paused) ==
    IF paused THEN "pause_sleep"
    ELSE IF ~running THEN "exited"
    ELSE "recognizing"

\* a loop that does not look at is_paused
IterationIgnoringPause(running, paused) ==
    IF ~running THEN "exited" ELSE "recognizing"

\* `while self.is_running`, then `if self.is_paused: time.sleep(0.5); continue`:
\* where an iteration goes
Iteration(running, paused) ==
    IF ~running THEN "exited"
    ELSE IF paused THEN "pause_sleep"
    ELSE "recognizing"

\* _worker_loop: `while self.is_running`, then `if self.is_paused`; an
\* iteration that is not paused enters recognize_subtitle
PollLoop(p) ==
    /\ ppc[p] = "loop"
    /\ ppc' = [ppc EXCEPT ![p] = Iteration(is_running, is_paused)]
    \* the locals of _worker_loop end with the thread
    /\ IF ~is_running
       THEN /\ pinterval' = [pinterval EXCEPT ![p] = None]
            /\ plast' = [plast EXCEPT ![p] = 0]
       ELSE UNCHANGED <<pinterval, plast>>
    /\ UNCHANGED <<is_running, is_paused, worker_thread, pobj, old, apc>>
    /\ UNCHANGED <<recVars, ttsVars, spkVars, loopVars, normVars, guiVars>>

\* _worker_loop: time.sleep(0.5) of a paused iteration returns
PollPauseSleep(p) ==
    /\ ppc[p] = "pause_sleep"
    /\ ppc' = [ppc EXCEPT ![p] = "loop"]
    /\ UNCHANGED <<is_running, is_paused, worker_thread, pinterval, pobj, old, plast, apc>>
    /\ UNCHANGED <<recVars, ttsVars, spkVars, loopVars, normVars, guiVars>>

\* _worker_loop: recognize_subtitle returns and the result is handled: the
\* status observer is told (it may raise), an accepted text is enqueued
PollCycle(p, observed) ==
    /\ ppc[p] = "recognizing"
    /\ \E inp \in CycleInputs, observer \in Observers :
        LET k == pobj[p]
            r == recognize_subtitle(IF k = 0 THEN CurrentState ELSE old[k],
                                    confidence_threshold, inp, now)
            h == HandleResult(r.result, observer, now, plast[p])
            accepted == h.enq # <<>> /\ Strip(h.enq[1]) # Empty
        IN
        /\ accepted => next_id < MaxAccepted
        /\ IF k = 0
           THEN /\ last_text' = r.state.last_text
                /\ last_capture_time' = r.state.last_capture_time
                /\ UNCHANGED <<pobj, old>>
           ELSE \* a replaced recognizer is dropped with its last call
                /\ old' = [old EXCEPT ![k] = IF CallsOn(k) = {p} THEN InitialState
                                              ELSE r.state]
                /\ pobj' = [pobj EXCEPT ![p] = 0]
                /\ UNCHANGED <<last_text, last_capture_time>>
        \* self.synthesizer.enqueue_speech(result.text)
        /\ IF accepted
           THEN /\ speech_queue' = Append(speech_queue,
                                          [id |-> next_id + 1, text |-> h.enq[1]])
                /\ next_id' = next_id + 1
           ELSE UNCHANGED <<speech_queue, next_id>>
        /\ plast' = [plast EXCEPT ![p] = h.last_status_time]
        /\ ppc' = [ppc EXCEPT ![p] = IF h.raised THEN "except_sleep" ELSE "sleep"]
        /\ IF observed
           THEN /\ cyc' = [reason |-> r.result.reason, text |-> r.result.text,
                           enq |-> h.enq, notice |-> h.notice]
                /\ noticed' = [noticed EXCEPT ![p] = IF h.notice = "reason"
                                                     THEN <<noticed[p][2], now>>
                                                     ELSE noticed[p]]
           ELSE UNCHANGED loopVars
    /\ UNCHANGED <<is_running, is_paused, worker_thread, pinterval, apc>>
    /\ UNCHANGED <<confidence_threshold, now, res, prev, spkVars, normVars, guiVars>>
    /\ UNCHANGED <<tts_is_running, tts_worker_thread, wpc, wtask, cache, main_ext,
                   fallback_ext, cpc, play_log, pending, dropped>>

\* _worker_loop: time.sleep(interval) at the end of the try block; what it
\* raises is caught by the except clause of the iteration
PollSleep(p) ==
    /\ ppc[p] = "sleep"
    /\ ppc' = [ppc EXCEPT ![p] = IF SleepRaises(pinterval[p]) THEN "except_sleep" ELSE "loop"]
    /\ UNCHANGED <<is_running, is_paused, worker_thread, pinterval, pobj, old, plast, apc>>
    /\ cyc' = NoCycle
    /\ UNCHANGED <<recVars, ttsVars, spkVars, noticed, normVars, guiVars>>

\* _worker_loop: time.sleep(interval) inside the except clause; what it
\* raises leaves _worker_loop and ends the thread
PollExceptSleep(p) ==
    /\ ppc[p] = "except_sleep"
    /\ ppc' = [ppc EXCEPT ![p] = IF SleepRaises(pinterval[p]) THEN "crashed" ELSE "loop"]
    \* the locals of _worker_loop end with the thread
    /\ IF SleepRaises(pinterval[p])
       THEN /\ pinterval' = [pinterval EXCEPT ![p] = None]
            /\ plast' = [plast EXCEPT ![p] = 0]
       ELSE UNCHANGED <<pinterval, plast>>
    /\ UNCHANGED <<is_running, is_paused, worker_thread, pobj, old, apc>>
    /\ cyc' = NoCycle
    /\ UNCHANGED <<recVars, ttsVars, spkVars, noticed, normVars, guiVars>>

\* one cycle of _worker_loop
PollRecognize(p) == PollCycle(p, FALSE)

\* one cycle of _worker_loop, with what it did kept in cyc and noticed
ObservedRecognize(p) == PollCycle(p, TRUE)

PollingWorker == \E p \in Pollers :
    \/ PollLoop(p) \/ PollPauseSleep(p)
    \/ PollRecognize(p) \/ PollSleep(p) \/ PollExceptSleep(p)

ObservedWorker == \E p \in Pollers :
    \/ PollLoop(p) \/ PollPauseSleep(p)
    \/ ObservedRecognize(p) \/ PollSleep(p) \/ PollExceptSleep(p)

\* Wall time passes
AppTick ==
    /\ now < Epoch + Horizon
    /\ now' = now + 1
    /\ UNCHANGED <<last_text, last_capture_time, confidence_threshold, res, prev>>
    /\ UNCHANGED <<ttsVars, spkVars, loopVars, normVars, guiVars, appVars>>

AppNext == Start \/ CatchStartError \/ Pause \/ Stop \/ StopJoined \/ PollingWorker

\* One session that is never stopped, with the clock running
LoopNext == Start \/ CatchStartError \/ Pause \/ ObservedWorker \/ AppTick

(***************************************************************************)
(* Otsu's method (SubtitleRecognizer._otsu_threshold)                      *)
(*                                                                         *)
(* The code computes in binary floating point.  A float is [m, e], the     *)
(* value m * 2^e with 2^(Mantissa-1) <= m < 2^Mantissa, or [0, 0]; every   *)
(* operation rounds its exact result to the nearest float, ties to even.   *)
(***************************************************************************)
Levels == 0..MaxLevel

\* np.histogram(data, bins=256, range=(0, 256)): pixels per grey level
Histograms == [Levels -> 0..MaxCount]

RECURSIVE Pow2(_)
Pow2(k) == IF k = 0 THEN 1 ELSE 2 * Pow2(k - 1)

\* the float nearest to (n / d) * 2^e, for n >= 0 and d > 0
RECURSIVE Fl(_, _, _)
Fl(n, d, e) ==
    IF n = 0 THEN [m |-> 0, e |-> 0]
    ELSE IF n < d * Pow2(Mantissa - 1) THEN Fl(2 * n, d, e - 1)
    ELSE IF n >= d * Pow2(Mantissa) THEN Fl(n, 2 * d, e + 1)
    ELSE LET q == n \div d
             r == n % d
             up == 2 * r > d \/ (2 * r = d /\ q % 2 = 1)
             m == IF up THEN q + 1 ELSE q
         IN  IF m = Pow2(Mantissa) THEN [m |-> Pow2(Mantissa - 1), e |-> e + 1]
             ELSE [m |-> m, e |-> e]

\* float(i) for an int i >= 0
FlInt(i) == Fl(i, 1, 0)

FlAdd(x, y) ==
    IF x.m = 0 THEN y
    ELSE IF y.m = 0 THEN x
    ELSE IF x.e >= y.e THEN Fl(x.m * Pow2(x.e - y.e) + y.m, 1, y.e)
    ELSE Fl(x.m + y.m * Pow2(y.e - x.e), 1, x.e)

\* |x - y|: the sign of a difference is lost in its square
FlAbsSub(x, y) ==
    LET a == IF x.e >= y.e THEN x.m * Pow2(x.e - y.e) ELSE x.m
        b == IF x.e >= y.e THEN y.m ELSE y.m * Pow2(y.e - x.e)
        e == IF x.e >= y.e THEN y.e ELSE x.e
    IN  IF x.m = 0 THEN y
        ELSE IF y.m = 0 THEN x
        ELSE Fl(IF a >= b THEN a - b ELSE b - a, 1, e)

FlMul(x, y) == Fl(x.m * y.m, 1, x.e + y.e)

FlDiv(x, y) == Fl(x.m, y.m, x.e - y.e)

\* `var_between >= var_max`: a loop that keeps the last maximum
FlGreaterOrEqual(x, y) ==
    \/ y.m = 0
    \/ x.m # 0 /\ (x.e > y.e \/ (x.e = y.e /\ x.m >= y.m))

\* `var_between > var_max`
FlGreater(x, y) ==
    /\ x.m # 0
    /\ \/ y.m = 0
       \/ x.e > y.e
       \/ x.e = y.e /\ x.m > y.m

\* sum_total = np.dot(np.arange(256), hist); total = data.size
RECURSIVE SumTotal(_, _)
SumTotal(hist, t) == IF t < 0 THEN 0 ELSE t * hist[t] + SumTotal(hist, t - 1)

RECURSIVE Total(_, _)
Total(hist, t) == IF t < 0 THEN 0 ELSE hist[t] + Total(hist, t - 1)

\* `for t in range(256)`, from level t on, with the locals in acc
RECURSIVE OtsuLoop(_, _, _)
OtsuLoop(hist, t, acc) ==
    IF t > MaxLevel THEN acc.threshold
    ELSE LET w_b == FlAdd(acc.w_b, FlInt(hist[t]))
             w_f == FlAbsSub(FlInt(Total(hist, MaxLevel)), w_b)
             sum_b == FlAdd(acc.sum_b, FlInt(t * hist[t]))
             m_b == FlDiv(sum_b, w_b)
             m_f == FlDiv(FlAbsSub(FlInt(SumTotal(hist, MaxLevel)), sum_b), w_f)
             diff == FlAbsSub(m_b, m_f)
             var_between == FlMul(FlMul(w_b, w_f), FlMul(diff, diff))
         IN  IF w_b.m = 0 THEN OtsuLoop(hist, t + 1, [acc EXCEPT !.w_b = w_b])
             ELSE IF w_f.m = 0 THEN acc.threshold
             ELSE IF FlGreater(var_between, acc.var_max)
             THEN OtsuLoop(hist, t + 1, [w_b |-> w_b, sum_b |-> sum_b,
                                         var_max |-> var_between, threshold |-> t])
             ELSE OtsuLoop(hist, t + 1, [acc EXCEPT !.w_b = w_b, !.sum_b = sum_b])

\* _otsu_threshold with numpy at hand and no exception: int(threshold)
OtsuThreshold(hist) ==
    OtsuLoop(hist, 0, [w_b |-> FlInt(0), sum_b |-> FlInt(0), var_max |-> FlInt(0),
                       threshold |-> 0])

\* The _otsu_threshold call on the image at hand
OtsuCall ==
    /\ nz.op = "image"
    /\ nz' = [op |-> "otsu", hist |-> nz.hist, threshold |-> OtsuThreshold(nz.hist)]
    /\ UNCHANGED <<preprocess, recVars, ttsVars, spkVars, loopVars, appVars, guiVars>>

(***************************************************************************)
(* Image normalisation (SubtitleRecognizer._preprocess_image)              *)
(***************************************************************************)
\* An image, by the steps it went through: threshold is -1 before binarizing
RawImage == [scaled |-> FALSE, gray |-> FALSE, threshold |-> -1, inverted |-> FALSE]

Steps == {"scale", "grayscale", "otsu", "binarize", "invert"}

\* The preprocess_* fields of a recognizer; the scale 1.0 or 2.0
PreprocessConfigs ==
    [enable : BOOLEAN, scale : {1, 2}, grayscale : BOOLEAN, auto_threshold : BOOLEAN,
     threshold : {160, 300}, invert : BOOLEAN]

\* SubtitleRecognizer.__init__: the preprocess_* arguments
NormInit ==
    /\ preprocess \in PreprocessConfigs
    /\ nz = NoNormalize

\* What one call meets: whether PIL and numpy were imported, the steps that
\* raise, and the threshold Otsu's method gives for the image
Environments ==
    [lib : {"present", "absent"}, fails : {{}} \cup {{step} : step \in Steps}, otsu : {100}]

\* a step raises: by itself, or because the import failed and left Image
\* and ImageOps None
StepFails(step, env) ==
    \/ step \in env.fails
    \/ env.lib = "absent" /\ step \in {"scale", "grayscale", "invert"}

\* _otsu_threshold: None without numpy and after any exception, else
\* <<threshold>>
_otsu_threshold(env) ==
    IF env.lib = "absent" THEN None
    ELSE IF "otsu" \in env.fails THEN None
    ELSE <<env.otsu>>

\* max(0, min(255, v))
Clamp(v) == IF v < 0 THEN 0 ELSE IF v > 255 THEN 255 ELSE v

\* a normalisation without the try block: a failing step raises to the caller
_preprocess_image_unguarded(image, cfg, env) ==
    IF ~cfg.enable THEN [image |-> image, raised |-> FALSE]
    ELSE [image |-> image,
          raised |-> \E step \in Steps \ {"otsu"} : StepFails(step, env)]

\* _preprocess_image: the image handed to the engine, and whether the call
\* raised
_preprocess_image(image, cfg, env) ==
    IF ~cfg.enable THEN [image |-> image, raised |-> FALSE]
    ELSE LET scaling == cfg.scale > 1
             scaled == IF scaling THEN [image EXCEPT !.scaled = TRUE] ELSE image
             gray == IF cfg.grayscale THEN [scaled EXCEPT !.gray = TRUE] ELSE scaled
             otsu == IF cfg.auto_threshold THEN _otsu_threshold(env) ELSE None
             threshold == IF otsu = None THEN Clamp(cfg.threshold) ELSE otsu[1]
             binary == [gray EXCEPT !.threshold = threshold]
             processed == IF cfg.invert THEN [binary EXCEPT !.inverted = TRUE] ELSE binary
             failed == \/ scaling /\ StepFails("scale", env)
                       \/ cfg.grayscale /\ StepFails("grayscale", env)
                       \/ StepFails("binarize", env)
                       \/ cfg.invert /\ StepFails("invert", env)
         IN  \* except Exception: return image
             IF failed THEN [image |-> image, raised |-> FALSE]
             ELSE [image |-> processed, raised |-> FALSE]

\* a binarization that makes a pixel equal to the threshold white
PointInclusive(p, threshold) == IF p >= threshold THEN 255 ELSE 0

\* line 449: processed.point(lambda p: 255 if p > threshold else 0)
Point(p, threshold) == IF p > threshold THEN 255 ELSE 0

\* the value a pixel of grey value p has in the image: binarized (line 449)
\* and then inverted (line 453, ImageOps.invert), as far as the image went
\* through these steps
PixelOf(image, p) ==
    LET binary == IF image.threshold = -1 THEN p ELSE Point(p, image.threshold)
    IN  IF image.inverted THEN 255 - binary ELSE binary

\* _preprocess_image on the captured image
PreprocessCall ==
    /\ nz.op = "captured"
    /\ LET pre == _preprocess_image(RawImage, preprocess, nz.env) IN
         nz' = [op |-> "preprocessed", p |-> nz.p, cfg |-> preprocess, env |-> nz.env,
                image |-> pre.image, out |-> PixelOf(pre.image, nz.p)]
    /\ UNCHANGED <<preprocess, recVars, ttsVars, spkVars, loopVars, appVars, guiVars>>

\* recognize_subtitle with its normalisation step: an exception of
\* _preprocess_image would reach the except clause of recognize_subtitle
RecognizeNormalized(st, threshold, inp, t, cfg, env) ==
    LET pre == _preprocess_image(RawImage, cfg, env)
        r == recognize_subtitle(st, threshold, inp, t)
    IN  IF Capture(inp.capture) # "None" /\ pre.raised
        THEN [result |-> RecognitionResult(Empty, 0, TRUE, "error"), state |-> st,
              image |-> RawImage, raised |-> TRUE]
        ELSE [result |-> r.result, state |-> r.state,
              image |-> pre.image, raised |-> FALSE]

\* What the engine does with the normalised image of one call
NormalizeInputs ==
    { i \in CycleInputs : i.capture = "image" /\ i.text \in {Empty, <<"a">>} }

\* One complete recognize_subtitle call on a captured image
NormalizeCall ==
    \E inp \in NormalizeInputs, env \in Environments :
        LET cfg == preprocess
            r == RecognizeNormalized(CurrentState, confidence_threshold, inp, now, cfg, env) IN
        /\ last_text' = r.state.last_text
        /\ last_capture_time' = r.state.last_capture_time
        /\ nz' = [op |-> "normalize", input |-> inp, cfg |-> cfg, env |-> env,
                  image |-> r.image, raised |-> r.raised, reason |-> r.result.reason]
        /\ UNCHANGED <<confidence_threshold, now, res, prev>>
        /\ UNCHANGED <<preprocess, ttsVars, spkVars, loopVars, appVars, guiVars>>

(***************************************************************************)
(* Specifications                                                          *)
(***************************************************************************)
\* A recognizer on its own: no synthesizer thread, no application thread
RecognizerAlone ==
    /\ RecInit
    /\ NormIdle
    /\ TtsIdle
    /\ AppIdle

SpecRecognizer == RecognizerAlone /\ [][RecNext]_vars

\* A synthesizer on its own: the recognizer and the application stay put
SynthesizerAlone ==
    /\ TtsInit
    /\ NormIdle
    /\ RecIdle
    /\ AppIdle

SpecSpeech == SynthesizerAlone /\ [][TtsNext]_vars

\* A synthesizer whose queue is filled while its worker runs
EnqueueNext == ObservedEnqueue \/ StartQueueWorker \/ QueueWorker

SpecEnqueue == SynthesizerAlone /\ [][EnqueueNext]_vars

\* The synthesizer of an application that is stopped after its polling
\* thread has ended: enqueue_speech is called from the polling thread, that
\* is before stop() goes on to the synthesizer
StopSpeechNext ==
    \/ (cpc = "idle" /\ EnqueueSpeech)
    \/ StartQueueWorker \/ QueueWorker
    \/ StopSpeech \/ StopSpeechClear \/ StopSpeechJoined

SpecStopSpeech == SynthesizerAlone /\ [][StopSpeechNext]_vars

\* The same, with a worker thread that is scheduled again and again and whose
\* synthesis and playback calls return
SpecEnqueueFair == SynthesizerAlone /\ [][EnqueueNext]_vars /\ WF_vars(QueueWorker)

\* A synthesizer called directly, one call after the other
SynthesizerCalled ==
    /\ SpeakInit
    /\ NormIdle
    /\ RecIdle
    /\ AppIdle

SpecSpeak == SynthesizerCalled /\ [][SpeakNext]_vars

\* A recognizer whose calls are followed through the normalisation
RecognizerNormalizing ==
    /\ RecInit
    /\ NormInit
    /\ TtsIdle
    /\ AppIdle

SpecNormalize == RecognizerNormalizing /\ [][NormalizeCall]_vars

\* A recognizer about to call _otsu_threshold on an image of any histogram
OtsuAlone ==
    /\ RecIdle
    /\ preprocess = DefaultPreprocess
    /\ \E hist \in Histograms : nz = [op |-> "image", hist |-> hist]
    /\ TtsIdle
    /\ AppIdle

SpecOtsu == OtsuAlone /\ [][OtsuCall]_vars

\* A recognizer whose _preprocess_image is called on a captured grey image,
\* of which one pixel is followed: a grey value around the thresholds 160
\* and 255
PreprocessAlone ==
    /\ RecIdle
    /\ preprocess \in PreprocessConfigs
    /\ \E p \in {0, 159, 160, 161, 254, 255}, env \in Environments :
          nz = [op |-> "captured", p |-> p, env |-> env]
    /\ TtsIdle
    /\ AppIdle

SpecPreprocess == PreprocessAlone /\ [][PreprocessCall]_vars

Spec == AppInit /\ [][AppNext]_vars

\* An application that is never stopped, with its speech worker: start(config)
\* is called at any time and spawns the speech worker thread,
\* start_queue_worker() is called on the synthesizer of the running application
StartNext ==
    \/ StartApp(TRUE) \/ CatchStartError
    \/ (is_running /\ StartQueueWorker)
    \/ Pause
    \/ PollingWorker \/ QueueWorker

SpecStart == AppInit /\ [][StartNext]_vars

\* One session that is paused and resumed, with its speech worker:
\* start(config) until a polling thread is spawned
PauseNext ==
    \/ ((\A p \in Pollers : ppc[p] = "unborn") /\ StartApp(TRUE))
    \/ CatchStartError
    \/ Pause
    \/ PollingWorker \/ QueueWorker

SpecPause == AppInit /\ [][PauseNext]_vars

\* One session: start(config) until a polling thread is spawned, then pause
\* and stop calls and no further start; the polling thread is scheduled again
\* and again and its engine calls and sleeps return
SessionNext ==
    \/ ((\A p \in Pollers : ppc[p] = "unborn") /\ Start)
    \/ CatchStartError
    \/ Pause \/ Stop \/ StopJoined
    \/ PollingWorker

SpecSession ==
    /\ AppInit
    /\ [][SessionNext]_vars
    /\ \A p \in Pollers :
          WF_vars(\/ PollLoop(p) \/ PollPauseSleep(p)
                  \/ PollRecognize(p) \/ PollSleep(p) \/ PollExceptSleep(p))

SpecLoop == AppInit /\ [][LoopNext]_vars

(***************************************************************************)
(* Properties of the synthesizer (checked under SpecSpeech)                *)
(***************************************************************************)
Playing == { w \in Workers : wpc[w] = "play" }

NowPlaying == { wtask[w].id : w \in Playing }

\* C3: at most one audio playback is in progress at any time, under every
\* interleaving of start_queue_worker, stop_queue_worker, enqueue_speech and
\* stop_speaking.
C3_AtMostOnePlayback == Cardinality(Playing) <= 1

\* C4: texts are played in the order enqueue_speech accepted them: when A
\* was enqueued before B and both are played, A's playback starts and ends
\* before B's playback starts.
C4_PlaybackInEnqueueOrder ==
    \A i, j \in 1..Len(play_log) :
        i < j => (play_log[i] < play_log[j] /\ play_log[i] \notin NowPlaying)

\* C10: a text that is in the queue when stop_speaking is called is never
\* passed to speak afterwards (stop_speaking stops the playback and empties
\* the queue; pending holds the ids that were queued at the call).
C10_PendingNeverSpoken ==
    \A w \in Workers : wpc[w] \in {"speak", "play"} => wtask[w].id \notin pending

Held == { wtask[w].id : w \in Workers } \ {0}

Queued == { speech_queue[i].id : i \in 1..Len(speech_queue) }

\* C13: a text whose primary synthesis fails, with no fallback engine or a
\* fallback synthesis that fails too, is dropped: it is not played, not put
\* back into the queue and not taken up again, and the worker goes on to the
\* next queued text.
C13_FailedTextDropped ==
    \A d \in dropped :
        /\ \A i \in 1..Len(play_log) : play_log[i] # d
        /\ d \notin Queued
        /\ d \notin Held

C13_Witness ==
    /\ dropped = {1}
    /\ \E w \in Workers : wpc[w] = "play" /\ wtask[w].id = 2

(***************************************************************************)
(* Properties of speak and clear_cache (checked under SpecSpeak)           *)
(***************************************************************************)
IsSpeak(c) == c.op = "speak"

\* C11: when a speak(T) succeeds and the next call is speak(T) again (no
\* clear_cache in between), the second call is a cache hit that calls
\* synthesize on no engine, and the two calls together call synthesize at
\* most once.
C11_SecondSpeakIsCacheHit ==
    (/\ IsSpeak(spk_prev) /\ IsSpeak(spk)
     /\ spk_prev.text = spk.text
     /\ spk_prev.play)
    => /\ spk.synth = <<>>
       /\ Len(spk_prev.synth) + Len(spk.synth) <= 1

\* the fallback case: a non-blank text, a primary synthesize that returns
\* failure, a fallback engine whose synthesize succeeds
FallbackCase(c) ==
    /\ IsSpeak(c) /\ Strip(c.text) # Empty
    /\ c.p = "fail" /\ c.f = "ok"
    /\ fallback_ext # "None"

\* C12 (as claimed): with a primary that fails and a fallback that succeeds,
\* speak(T) of any non-blank T succeeds and plays the file at the fallback
\* engine's cache path.
C12_FallbackArtifactAlways ==
    FallbackCase(spk) => (spk.play /\ spk.path = AudioPath(spk.text, fallback_ext))

\* C12 (amended): the same, for a text that has no file at the primary
\* engine's cache path when speak is called.
C12_FallbackArtifactWhenNotCached ==
    (FallbackCase(spk) /\ AudioPath(spk.text, main_ext) \notin spk.pre)
    => /\ spk.play
       /\ spk.path = AudioPath(spk.text, fallback_ext)
       /\ spk.path \in spk.post

C12_Witness ==
    /\ FallbackCase(spk)
    /\ main_ext = "mp3" /\ fallback_ext = "wav"
    /\ spk.pre = {}
    /\ spk.synth = <<"primary", "fallback">>
    /\ spk.play /\ spk.path = AudioPath(spk.text, "wav")

\* C33: when the primary synthesis of a non-blank text without a file at the
\* primary cache path fails, by returning failure or by raising, and a
\* fallback engine is configured, speak calls the fallback engine's
\* synthesize or uses the file at the fallback cache path.
C33_FallbackTriedOnEveryFailure ==
    (/\ IsSpeak(spk) /\ Strip(spk.text) # Empty
     /\ AudioPath(spk.text, main_ext) \notin spk.pre
     /\ spk.p # "ok"
     /\ fallback_ext # "None")
    => \/ spk.synth = <<"primary", "fallback">>
       \/ /\ AudioPath(spk.text, fallback_ext) \in spk.pre
          /\ spk.play /\ spk.path = AudioPath(spk.text, fallback_ext)

\* C19: a clear_cache() that completes deletes every cached file of the
\* primary engine's format, whichever engine is primary, and a following
\* speak(T) of a text that was cached is a miss that calls the primary
\* engine's synthesize again.
C19_ClearCacheDeletesPrimaryFormat ==
    /\ (spk.op = "clear_cache" /\ spk.p = "ok")
         => \A file \in cache : file[2] # main_ext
    /\ (/\ spk_prev.op = "clear_cache" /\ spk_prev.p = "ok"
        /\ IsSpeak(spk) /\ AudioPath(spk.text, main_ext) \in spk_prev.pre)
         => (spk.synth # <<>> /\ Head(spk.synth) = "primary")

(***************************************************************************)
(* Properties of the application loop (checked under Spec)                 *)
(***************************************************************************)
Recognizing == { p \in Pollers : ppc[p] = "recognizing" }

\* C5: recognition cycles are strictly sequential: under every sequence of
\* start, pause and stop calls, no two recognize_subtitle calls overlap.
C5_CyclesSequential == Cardinality(Recognizing) <= 1

\* C6: while is_running is true, no exception raised inside one iteration
\* of _worker_loop ends the polling worker.
C6_WorkerSurvivesExceptions ==
    \A p \in Pollers : is_running => ppc[p] # "crashed"

\* C14: when _init_components fails inside start(config), the error reaches
\* the caller, is_running is false when start returns, and no polling thread
\* has been spawned.
C14_FailedStartStaysStopped ==
    [][(apc = "idle" /\ apc' = "raised")
         => (~is_running' /\ ppc' = ppc /\ worker_thread' = worker_thread)]_vars

C14_Witness == apc = "raised" /\ ~is_running /\ tts_is_running = FALSE

Alive == { p \in Pollers : ppc[p] \notin {"unborn", "exited", "crashed"} }

\* C15: the interval a polling thread uses is the caller's when the caller
\* gave one and the persisted one otherwise, also when the option was left
\* out on the command line and handed over as None.
C15_OmittedResolvesToPersisted ==
    \A p \in Alive : pinterval[p] \in {Float(10), Float(DefaultInterval)}

\* C16: the flags are Stopped, Running or Paused in every reachable state:
\* is_paused implies is_running.
C16_PausedImpliesRunning == is_paused => is_running

(***************************************************************************)
(* Properties of one polling session (checked under SpecLoop)              *)
(***************************************************************************)
\* C17: more than 5 s of wall time lie between two notices a polling thread
\* gives for cycles without text, and the window starts again at each notice.
C17_NoticesThrottled ==
    \A p \in Pollers :
        /\ noticed[p][1] # 0 => noticed[p][2] - noticed[p][1] > StatusWindow
        /\ p \in Alive => plast[p] >= noticed[p][2]

C17_Witness ==
    \E p \in Pollers : noticed[p][1] # 0 /\ cyc.notice = "reason" /\ ppc[p] = "sleep"

\* C18: a cycle calls enqueue_speech exactly once, with the result's text,
\* when the reason is ok, and not at all for any other reason.
C18_EnqueueExactlyOnOk ==
    /\ cyc.reason = "ok" => cyc.enq = <<cyc.text>>
    /\ cyc.reason \notin {"ok", "none"} => cyc.enq = <<>>

\* what a cycle of the polling thread can change: the recognizer, the speech
\* queue, the notices
cycleVars == <<last_text, last_capture_time, speech_queue, next_id, cyc, noticed>>

\* C28: an iteration of _worker_loop that finds is_paused set goes to the
\* idle wait and from there back to the loop test, and neither step calls
\* recognize_subtitle, enqueues a text or gives a status notice.
C28_PausedIterationOnlyWaits ==
    [][\A p \in Pollers :
        /\ (ppc[p] = "loop" /\ is_running /\ is_paused /\ ppc'[p] # ppc[p]) =>
              (ppc'[p] = "pause_sleep" /\ UNCHANGED cycleVars)
        /\ (ppc[p] = "pause_sleep" /\ ppc'[p] # ppc[p]) =>
              (ppc'[p] = "loop" /\ UNCHANGED cycleVars)]_vars

\* a paused thread in its idle wait, after a cycle that accepted a text
C28_Witness ==
    \E p \in Pollers :
        /\ ppc[p] = "pause_sleep"
        /\ is_running /\ is_paused
        /\ last_text # Empty

\* C27: from the return of stop() to the next start() the recognizer is in
\* its reset state (no last text, no capture time), whatever a polling cycle
\* that was in flight when stop() was called does afterwards.
C27_ResetHoldsAfterStop ==
    (~is_running /\ apc = "idle") => CurrentState = ResetState

(***************************************************************************)
(* Properties of the speech queue (checked under SpecEnqueue)              *)
(***************************************************************************)
\* C26: enqueue_speech appends the text to the queue if it is non-blank and
\* leaves the queue alone if it is blank, whatever the queue already holds
\* (the same text twice makes two entries); the queue never holds a blank text.
C26_EnqueueAppendsIffNonBlank ==
    /\ spk.op = "enqueue_speech" =>
          spk.post = IF Strip(spk.text) = Empty THEN spk.pre
                     ELSE Append(spk.pre, [id |-> spk.id, text |-> spk.text])
    /\ \A i \in 1..Len(speech_queue) : Strip(speech_queue[i].text) # Empty

\* the same non-blank text was enqueued twice, and both entries were played
C26_Witness ==
    /\ spk.op = "enqueue_speech" /\ spk_prev.op = "enqueue_speech"
    /\ spk.text = <<"a">> /\ spk_prev.text = <<"a">>
    /\ Len(spk.pre) = 1 /\ Len(spk.post) = 2
    /\ play_log = <<1, 2>>

(***************************************************************************)
(* Properties of Otsu's method (checked under SpecOtsu)                    *)
(***************************************************************************)
\* the pixels of the image have exactly the two grey values a < b
Bimodal(hist, a, b) ==
    /\ a < b
    /\ \A t \in Levels : hist[t] > 0 <=> t \in {a, b}

\* C21 (as claimed): for a histogram with pixels at two grey values a < b
\* only, the threshold t returned lies strictly between them: a < t < b.
C21_ThresholdStrictlyBetween ==
    nz.op = "otsu" =>
        \A a, b \in Levels :
            Bimodal(nz.hist, a, b) => (a < nz.threshold /\ nz.threshold < b)

\* C21 (amended): for a histogram with pixels at two grey values a < b only,
\* the threshold returned is a, the lower of the two: a <= t < b.
C21_ThresholdIsLowerCluster ==
    nz.op = "otsu" =>
        \A a, b \in Levels : Bimodal(nz.hist, a, b) => nz.threshold = a

C21_Witness ==
    /\ nz.op = "otsu"
    /\ Bimodal(nz.hist, 1, 3) /\ nz.hist[1] # nz.hist[3]
    /\ nz.threshold = 1

\* pixels at or below level t, and the sum of their grey values
RECURSIVE Below(_, _)
Below(hist, t) == IF t < 0 THEN 0 ELSE hist[t] + Below(hist, t - 1)

RECURSIVE SumBelow(_, _)
SumBelow(hist, t) == IF t < 0 THEN 0 ELSE t * hist[t] + SumBelow(hist, t - 1)

\* both classes of the split at t have pixels
Splits(hist, t) == Below(hist, t) > 0 /\ Below(hist, t) < Below(hist, MaxLevel)

\* w_b * w_f * (m_b - m_f)^2 of the split at t, as numerator and denominator
VarNum(hist, t) ==
    LET w_b == Below(hist, t)
        w_f == Below(hist, MaxLevel) - w_b
        x == SumBelow(hist, t) * w_f - (SumBelow(hist, MaxLevel) - SumBelow(hist, t)) * w_b
    IN  x * x

VarDen(hist, t) == Below(hist, t) * (Below(hist, MaxLevel) - Below(hist, t))

\* the split at t has a between-class variance at least that of the split at u
VarAtLeast(hist, t, u) ==
    VarNum(hist, t) * VarDen(hist, u) >= VarNum(hist, u) * VarDen(hist, t)

\* the smallest level whose split has the greatest between-class variance;
\* 0 when no level splits the pixels
FirstMaximizer(hist) ==
    IF \A t \in Levels : ~Splits(hist, t) THEN 0
    ELSE CHOOSE t \in Levels :
            /\ Splits(hist, t)
            /\ \A u \in Levels : Splits(hist, u) => VarAtLeast(hist, t, u)
            /\ \A u \in Levels :
                 (u < t /\ Splits(hist, u)) => ~VarAtLeast(hist, u, t)

\* C22: _otsu_threshold returns the smallest level that maximizes the
\* between-class variance over the levels that split the pixels into two
\* non-empty classes, and 0 when there is no such level.
C22_ReturnsFirstMaximizer ==
    nz.op = "otsu" => nz.threshold = FirstMaximizer(nz.hist)

(***************************************************************************)
(* Properties of the normalisation (checked under SpecNormalize)           *)
(***************************************************************************)
\* the step was reached with the configuration of call c and failed there
StepFailed(c, step) ==
    /\ c.cfg.enable
    /\ CASE step = "scale" -> c.cfg.scale > 1 /\ StepFails("scale", c.env)
         [] step = "grayscale" -> c.cfg.grayscale /\ StepFails("grayscale", c.env)
         [] step = "otsu" -> c.cfg.auto_threshold /\ _otsu_threshold(c.env) = None
         [] step = "binarize" -> StepFails("binarize", c.env)
         [] step = "invert" -> c.cfg.invert /\ StepFails("invert", c.env)

\* C20: the normalisation never raises to recognize_subtitle; when any step
\* fails (scale, grayscale, the Otsu computation, also without numpy,
\* binarize, invert) the engine gets the unmodified capture; and a failing
\* step never makes the result of the cycle reason=error.
C20_FailureReturnsInput ==
    nz.op = "normalize" =>
        /\ ~nz.raised
        /\ (\E step \in Steps : StepFailed(nz, step)) => nz.image = RawImage
        /\ ((\E step \in Steps : StepFailed(nz, step)) /\ nz.input.engine = "returns")
             => nz.reason # "error"

\* C20 as the code has it: a failing Otsu computation is replaced by the
\* fixed threshold and the normalisation goes on; a failure of any other
\* step gives the engine the unmodified capture.
C20_OtsuFailureUsesFixedThreshold ==
    nz.op = "normalize" =>
        /\ ~nz.raised
        /\ (\E step \in Steps \ {"otsu"} : StepFailed(nz, step)) => nz.image = RawImage
        /\ (/\ StepFailed(nz, "otsu")
            /\ \A step \in Steps \ {"otsu"} : ~StepFailed(nz, step))
             => nz.image.threshold = Clamp(nz.cfg.threshold)
        /\ ((\E step \in Steps : StepFailed(nz, step)) /\ nz.input.engine = "returns")
             => nz.reason # "error"

C20_Witness ==
    /\ nz.op = "normalize"
    /\ nz.env.lib = "present" /\ nz.env.fails = {"otsu"} /\ nz.cfg.auto_threshold
    /\ nz.cfg.threshold = 300 /\ nz.image.threshold = 255 /\ nz.image.gray
    /\ nz.reason = "ok"

(***************************************************************************)
(* Properties of the recognizer (checked under SpecRecognizer)             *)
(***************************************************************************)
IsRecognize(c) == c.op = "recognize"
EngineReturned(c) == IsRecognize(c) /\ c.input.capture = "image" /\ c.input.engine = "returns"
Accepted(c) == EngineReturned(c) /\ Truthy(c.input.text) /\ c.input.conf >= confidence_threshold

\* C1: two consecutive recognize_subtitle calls in which the engine returns the
\* same non-empty text T with confidence >= threshold, starting from a state
\* with last_text # T, return ok (skipped false, text T) and then duplicate
\* (skipped true).
C1_OkThenDuplicate ==
    (/\ Accepted(prev) /\ Accepted(res)
     /\ prev.input.text = res.input.text
     /\ prev.pre.last_text # prev.input.text)
    => /\ prev.result.reason = "ok"
       /\ ~prev.result.skipped
       /\ prev.result.text = prev.input.text
       /\ res.result.reason = "duplicate"
       /\ res.result.skipped

C1_Witness ==
    /\ Accepted(prev) /\ Accepted(res)
    /\ prev.input.text = res.input.text
    /\ prev.pre.last_text = <<"b">> /\ prev.input.text = <<"a">>
    /\ res.result.reason = "duplicate"

C7_LowConfidenceNotRemembered ==
    (/\ EngineReturned(prev) /\ Truthy(prev.input.text)
     /\ prev.input.conf < confidence_threshold)
    => /\ prev.result.reason = "low_confidence"
       /\ prev.post.last_text = prev.pre.last_text
       /\ (/\ Accepted(res)
           /\ res.input.text = prev.input.text
           /\ prev.pre.last_text # prev.input.text) => res.result.reason = "ok"

C7_Witness ==
    /\ EngineReturned(prev) /\ prev.input.text = <<"a">>
    /\ prev.input.conf < confidence_threshold
    /\ prev.pre.last_text = <<"b">>
    /\ Accepted(res) /\ res.input.text = <<"a">>
    /\ res.result.reason = "ok"

\* C8: when the engine returns text that is empty or only whitespace, the call
\* returns no_text with skipped true and empty text, whatever the confidence,
\* and last_text is not set to that text.
C8_BlankTextIsNoText ==
    (EngineReturned(res) /\ Strip(res.input.text) = Empty)
    => /\ res.result.reason = "no_text"
       /\ res.result.skipped
       /\ res.result.text = Empty
       /\ res.post.last_text = res.pre.last_text

\* C9: reset() sets last_text to the empty string and last_capture_time to 0,
\* and a recognize_subtitle call that follows a reset and returns non-empty T
\* with confidence >= threshold returns ok, whatever was accepted before.
C9_ResetForgets ==
    /\ res.op = "reset" => (last_text = Empty /\ last_capture_time = 0)
    /\ (prev.op = "reset" /\ Accepted(res)) => res.result.reason = "ok"

C9_Witness ==
    /\ prev.op = "reset"
    /\ prev.pre.last_text = <<"a">>
    /\ prev.pre.last_capture_time > 0
    /\ Accepted(res) /\ res.input.text = <<"a">>
    /\ res.result.reason = "ok"

\* C23: when the capture provider returns no image or raises inside
\* ScreenCapture.capture, the call returns {"", 0.0, skipped, capture_failed},
\* invokes no engine method and leaves last_text and last_capture_time alone.
C23_CaptureFailureTouchesNothing ==
    (IsRecognize(res) /\ res.input.capture \in {"none", "raises"})
    => /\ res.result = RecognitionResult(Empty, 0, TRUE, "capture_failed")
       /\ res.calls = <<>>
       /\ res.post = res.pre
       /\ CurrentState = res.pre

C23_Witness ==
    /\ IsRecognize(res) /\ res.input.capture = "raises"
    /\ res.result.reason = "capture_failed"
    /\ res.pre.last_text = <<"a">> /\ res.pre.last_capture_time < res.at
    /\ last_text = <<"a">> /\ last_capture_time = res.pre.last_capture_time

\* C24 (as claimed): when the engine returns empty text the call returns
\* {"", 0.0, skipped, no_text}, whatever confidence the engine reports.
C24_NoTextReportsZero ==
    (EngineReturned(res) /\ res.input.text = Empty)
    => res.result = RecognitionResult(Empty, 0, TRUE, "no_text")

\* C24 (amended): when the engine returns empty text the call returns
\* text "", skipped, reason no_text and the confidence the engine reported.
C24_NoTextReportsEngineConfidence ==
    (EngineReturned(res) /\ res.input.text = Empty)
    => res.result = RecognitionResult(Empty, res.input.conf, TRUE, "no_text")

C24_Witness ==
    /\ EngineReturned(res) /\ res.input.text = Empty /\ res.input.conf > 0
    /\ res.input.conf >= confidence_threshold
    /\ res.result.reason = "no_text" /\ res.result.confidence = res.input.conf

\* C25: when the engine raises from recognize or from get_confidence, the
\* call returns {"", 0.0, skipped, error} and leaves last_text and
\* last_capture_time alone.
C25_EngineErrorTouchesNothing ==
    (IsRecognize(res) /\ res.input.engine \in {"recognize_raises", "confidence_raises"})
    => /\ res.result = RecognitionResult(Empty, 0, TRUE, "error")
       /\ res.post = res.pre
       /\ CurrentState = res.pre

C25_Witness ==
    /\ IsRecognize(res) /\ res.input.engine = "confidence_raises"
    /\ res.calls = <<"recognize", "get_confidence">>
    /\ res.result.reason = "error"
    /\ res.pre.last_text = <<"a">> /\ res.pre.last_capture_time < res.at
    /\ last_capture_time = res.pre.last_capture_time

\* C29: the filters run in the order no_text, low_confidence, duplicate: a
\* call whose text equals last_text and whose confidence is below the
\* threshold returns low_confidence.
C29_LowConfidenceBeforeDuplicate ==
    (/\ EngineReturned(res) /\ Truthy(res.input.text)
     /\ res.input.text = res.pre.last_text
     /\ res.input.conf < confidence_threshold)
    => res.result.reason = "low_confidence"

C29_Witness ==
    /\ EngineReturned(res) /\ res.input.text = <<"a">>
    /\ res.pre.last_text = <<"a">>
    /\ res.input.conf < confidence_threshold
    /\ res.result.reason = "low_confidence"

\* C30: last_text is the text of the most recent call that returned ok, or
\* empty when there was none since construction or reset; so A, B, A, each
\* accepted, gives ok three times, and skipped calls change nothing of it.
C30_MemoryIsLastAccepted ==
    /\ last_text = res.accepted
    /\ (/\ Accepted(prev) /\ Accepted(res)
        /\ prev.result.reason = "ok"
        /\ res.input.text # prev.input.text) => res.result.reason = "ok"
    /\ (IsRecognize(res) /\ res.result.skipped) => res.accepted = prev.accepted

C30_Witness ==
    /\ Accepted(prev) /\ prev.pre.last_text = <<"a">> /\ prev.input.text = <<"b">>
    /\ prev.result.reason = "ok"
    /\ Accepted(res) /\ res.input.text = <<"a">> /\ res.result.reason = "ok"
    /\ last_text = <<"a">>

\* C31: a non-empty text that differs from last_text and whose confidence
\* equals the threshold is accepted (ok); low_confidence is returned only for
\* a confidence strictly below the threshold.
C31_ThresholdItselfIsAccepted ==
    /\ (/\ EngineReturned(res) /\ Truthy(res.input.text)
        /\ res.input.text # res.pre.last_text
        /\ res.input.conf = confidence_threshold) => res.result.reason = "ok"
    /\ (IsRecognize(res) /\ res.result.reason = "low_confidence")
          => res.input.conf < confidence_threshold

C31_Witness ==
    /\ EngineReturned(res) /\ res.input.text = <<"a">>
    /\ res.pre.last_text = <<"b">>
    /\ confidence_threshold > 0 /\ res.input.conf = confidence_threshold
    /\ res.result.reason = "ok" /\ last_text = <<"a">>

\* C32: every recognize_subtitle call returns one result whose reason is one
\* of ok, capture_failed, no_text, low_confidence, duplicate, error, whose
\* skipped is true exactly when the reason is not ok, and whose text is
\* non-empty exactly when the reason is ok.
C32_ResultWellFormed ==
    IsRecognize(res) =>
        /\ res.result.reason \in {"ok", "capture_failed", "no_text",
                                  "low_confidence", "duplicate", "error"}
        /\ res.result.skipped <=> res.result.reason # "ok"
        /\ Truthy(res.result.text) <=> res.result.reason = "ok"

\* the engine raised in the call before, and the call after it was accepted
C32_Witness ==
    /\ IsRecognize(prev) /\ prev.input.engine = "confidence_raises"
    /\ prev.result = RecognitionResult(Empty, 0, TRUE, "error")
    /\ Accepted(res) /\ res.result = RecognitionResult(<<"a">>, res.input.conf, FALSE, "ok")

\* C34: while the queue worker runs, every entry enqueue_speech accepted is
\* eventually taken from the queue and passed to speak, and speak ends with
\* the entry played or given up; an entry is passed to speak only by taking
\* it from the head of the queue, so that it is spoken once and does not
\* stay in the queue.
C34_AcceptedEventuallySpoken ==
    /\ \A id \in 1..MaxEnqueue :
          (id \in Queued /\ tts_is_running) ~> (id \in Held)
    /\ \A id \in 1..MaxEnqueue :
          (id \in Held) ~> (id \in { play_log[i] : i \in 1..Len(play_log) } \/ (id \notin Held /\ id \notin Queued))
    /\ [][\A w \in Workers :
            (wtask'[w] # wtask[w] /\ wtask'[w] # NoTask) =>
                /\ speech_queue # <<>>
                /\ wtask'[w] = Head(speech_queue)
                /\ wtask'[w].id \notin { speech_queue'[i].id : i \in 1..Len(speech_queue') }]_vars

\* two entries went through the worker: the first was given up by speak, the
\* second was played
C34_Witness ==
    /\ tts_is_running /\ next_id = 2
    /\ speech_queue = <<>> /\ Held = {}
    /\ play_log = <<2>>

\* C35: once stop() has cleared is_running, whether the application was
\* paused or not, and no start() follows, the polling thread leaves its loop;
\* a thread that has left the loop takes no further step, and a text is
\* enqueued only by a thread that is inside a cycle.
C35_StoppedWorkerExits ==
    /\ \A p \in Pollers : (~is_running /\ p \in Alive) ~> (p \notin Alive)
    /\ [][/\ \A p \in Pollers : ppc[p] \in {"exited", "crashed"} => ppc'[p] = ppc[p]
          /\ next_id' > next_id =>
                \E p \in Pollers : ppc[p] = "recognizing" /\ ppc'[p] # "recognizing"]_vars

\* stop() was called while paused, and the thread has left its loop
C35_Witness ==
    /\ ~is_running /\ is_paused /\ apc = "idle"
    /\ worker_thread # 0 /\ ppc[worker_thread] = "exited"
    /\ Alive = {}

\* C36: when the polling thread has ended before stop() goes on to the
\* synthesizer, no audio playback starts after stop() has returned; a text the
\* speech worker had taken from the queue and was still synthesizing when
\* stop_speaking ran is not played afterwards.
C36_NoPlaybackAfterStop ==
    [][cpc = "stopped" => play_log' = play_log]_vars

\* C37: a pause(paused) call that changes is_paused changes nothing else:
\* the recognizer state, the speech queue and the speech worker are as they
\* were, so that a text accepted before the pause is a duplicate after the
\* resume and queued texts go on being spoken during the pause.
C37_PauseChangesOnlyTheFlag ==
    [][(is_paused' # is_paused /\ is_running' = is_running) =>
         UNCHANGED <<last_text, last_capture_time, speech_queue, next_id,
                     tts_is_running, tts_worker_thread, wpc, wtask, play_log,
                     is_running, ppc>>]_vars

\* paused after a text was accepted: the recognizer remembers the text, the
\* polling thread idles and the speech worker plays the text
C37_Witness ==
    /\ is_running /\ is_paused
    /\ last_text = <<"a">>
    /\ \E p \in Pollers : ppc[p] = "pause_sleep"
    /\ \E w \in Workers : wpc[w] = "play" /\ wtask[w].text = <<"a">>

\* C38: while is_running is set, no step spawns a polling thread, clears
\* is_running, replaces the recognizer or the speech queue, or resets
\* is_paused together with anything else; while the synthesizer's is_running
\* is set, no step spawns a speech worker thread.
C38_StartWhileRunningIsNoOp ==
    [][/\ is_running =>
            /\ is_running'
            /\ \A p \in Pollers : ppc[p] = "unborn" => ppc'[p] = "unborn"
            /\ worker_thread' = worker_thread
            /\ next_id' >= next_id
            /\ ppc' = ppc => UNCHANGED <<last_text, last_capture_time, pobj, old>>
       /\ tts_is_running =>
            /\ tts_is_running'
            /\ \A w \in Workers : wpc[w] = "unborn" => wpc'[w] = "unborn"
            /\ tts_worker_thread' = tts_worker_thread]_vars

\* a running application with one polling thread and one speech worker
\* thread, both at work, after a text was accepted
C38_Witness ==
    /\ is_running /\ tts_is_running /\ apc = "idle" /\ cpc = "idle"
    /\ Cardinality({ p \in Pollers : ppc[p] # "unborn" }) = 1
    /\ Cardinality({ w \in Workers : wpc[w] # "unborn" }) = 1
    /\ last_text = <<"a">>
    /\ \E w \in Workers : wpc[w] = "speak"

\* C39: with preprocessing enabled, the fixed threshold in use and no step
\* failing, a pixel of grey value p is white (255) in the image handed to the
\* engine exactly when (p > the threshold clamped to 0..255) differs from the
\* invert option, and black (0) otherwise; with preprocessing disabled the
\* image is the captured one.
C39_PixelWhiteIffAboveThresholdXorInvert ==
    nz.op = "preprocessed" =>
        /\ (/\ nz.cfg.enable /\ ~nz.cfg.auto_threshold
            /\ \A step \in Steps : ~StepFailed(nz, step))
             => /\ nz.out \in {0, 255}
                /\ nz.out = 255 <=> ((nz.p > Clamp(nz.cfg.threshold)) # nz.cfg.invert)
        /\ ~nz.cfg.enable => (nz.image = RawImage /\ nz.out = nz.p)

\* a pixel equal to the threshold, inverted: black by the threshold, white in
\* the image
C39_Witness ==
    /\ nz.op = "preprocessed"
    /\ nz.cfg.enable /\ ~nz.cfg.auto_threshold /\ nz.cfg.invert /\ nz.cfg.grayscale
    /\ nz.cfg.threshold = 160 /\ nz.p = 160
    /\ nz.env.lib = "present" /\ nz.env.fails = {}
    /\ nz.out = 255

---------------------------------------------------------------------------
\* FilmReaderGUI button handlers (gui.py), wired by run_gui to the
\* application: on_start = start, on_pause = pause, on_stop = stop.
\* The start button is enabled exactly while gui.is_running is false, the
\* pause and stop buttons exactly while it is true: each handler sets the
\* button states together with the flag.

\* _on_start_clicked: without a region a warning is shown and nothing
\* changes; otherwise the flags are set first and on_start(config) is called
\* last, its exception leaving the handler
StartClicked ==
    /\ ~gui.is_running
    /\ \E region \in BOOLEAN :
         IF ~region
         THEN /\ apc = "idle"
              /\ UNCHANGED vars
         ELSE /\ gui' = [is_running |-> TRUE, is_paused |-> FALSE]
              /\ AppStart(FALSE)

\* _on_pause_clicked: the flag is toggled and handed to on_pause
PauseClicked ==
    /\ gui.is_running
    /\ gui' = [gui EXCEPT !.is_paused = ~gui.is_paused]
    /\ AppPause(~gui.is_paused)

\* _on_stop_clicked: both flags are cleared, then on_stop() is called
StopClicked ==
    /\ gui.is_running
    /\ gui' = [is_running |-> FALSE, is_paused |-> FALSE]
    /\ AppStop

GuiNext ==
    \/ StartClicked
    \/ CatchStartError
    \/ PauseClicked
    \/ StopClicked
    \/ StopJoined
    \/ PollingWorker

\* The application driven through its window only
SpecGui == AppInit /\ [][GuiNext]_vars

\* C40: whenever no button handler is running (the handler has returned, or
\* the exception of on_start has left it), the window's is_running and
\* is_paused equal the application's is_running and is_paused.
C40_GuiFlagsMatchApp ==
    apc = "idle" => /\ gui.is_running = is_running
                    /\ gui.is_paused = is_paused

====
